---- MODULE Spec2Model ----
(***************************************************************************)
(* FluxOps: the serving flow of function_app.py (predict, the process-wide *)
(* model cache, the blob trigger that clears it) and the training flow of  *)
(* ml_pipeline (MLPipeline, ModelInference).                               *)
(*                                                                         *)
(* Spec     : the function app.  Worker threads run predict requests; each *)
(*            statement of load_model_from_blob that reads or writes the   *)
(*            module global _cached_model is its own step, so every        *)
(*            interleaving with model_updated and with other loads is      *)
(*            explored.                                                    *)
(* SpecPipe : MLPipeline and ModelInference over a small file system.      *)
(***************************************************************************)
EXTENDS Naturals, FiniteSets, Sequences

\* ---------------------------------------------------------------- bounds
NumWorkers == 2      \* concurrent predict invocations in one process
MaxUploads == 1      \* uploads that replace the artifact under models/model_v1.pkl
MaxTmpFiles == 2     \* temp files the disk holds
MaxTrainSets == 2    \* distinct training inputs (each yields its own fitted model)

\* ------------------------------------------------------ program constants
NumFeatures == 10    \* function_app.py:47

Workers == 1..NumWorkers

\* ------------------------------------------------------------ data values
\* Python's None for a model reference.
None == [id |-> 0, ver |-> 0, whole |-> FALSE]
\* No blob under models/model_v1.pkl.
NoBlob == [ver |-> 0, good |-> FALSE]
\* No request.
NoReq == [json |-> "none", kind |-> "none", len |-> 0, numeric |-> FALSE]

\* The request bodies tried: a body that is not JSON, a JSON array, and JSON
\* objects whose 'features' is absent, a number, or a list.
Requests ==
    { [json |-> "invalid", kind |-> "none", len |-> 0, numeric |-> FALSE],
      [json |-> "array", kind |-> "none", len |-> 0, numeric |-> FALSE],
      [json |-> "object", kind |-> "none", len |-> 0, numeric |-> FALSE],
      [json |-> "object", kind |-> "number", len |-> 0, numeric |-> TRUE] }
    \cup { [json |-> "object", kind |-> "list", len |-> n, numeric |-> TRUE] :
             n \in {0, NumFeatures - 1, NumFeatures, NumFeatures + 1} }
    \cup { [json |-> "object", kind |-> "list", len |-> NumFeatures, numeric |-> FALSE] }

VARIABLES
    \* ---- function app
    connSet,        \* os.environ has STORAGE_CONNECTION_STRING
    blob,           \* the artifact stored under models/model_v1.pkl
    pending,        \* blob-trigger notifications not yet delivered
    cached,         \* the module global _cached_model
    tmpFiles,       \* number of temp files on disk that the loader created
    pc,             \* position of each worker in predict / load_model_from_blob
    req,            \* the request a worker is serving
    data,           \* bytes downloaded by the call
    last,           \* the request answered last: the request, the HTTP status,
                    \* the stage it ended in, the exception predict caught, and
                    \* whether the model came from the cache
    \* ---- history, read only by the properties
    lastRet,        \* instance the last completed call returned; None once
                    \* model_updated has run since
    invSince,       \* model_updated has run and no call has started since
    prevRet,        \* lastRet as the call started; None once model_updated has run since
    \* ---- ml_pipeline
    dirsExist,      \* model_dir and log_dir exist
    files,          \* the content of each file
    pmodel,         \* MLPipeline.model
    pmetrics,       \* MLPipeline.metrics
    rpc,            \* position of MLPipeline.run: the step to execute next
    done,           \* the steps the current run has executed, in order
    failedAt,       \* the step of the current run that raised, "none" if none
    result,         \* what run returned
    wrote,          \* the files the current run has written to
    inf,            \* the ModelInference instance
    infOut,         \* outcome of the last ModelInference operation
    \* ---- history, read only by the properties
    saved,          \* per path, the model the last completed save_model wrote,
                    \* and whether it replaced an earlier artifact
    expect          \* saved[inf.model_path] as the instance last loaded

appVars == << connSet, blob, pending, cached, tmpFiles, pc, req, data, last >>
histVars == << lastRet, invSince, prevRet >>
pipeVars == << dirsExist, files, pmodel, pmetrics, rpc, done, failedAt, result,
              wrote, inf, infOut, saved, expect >>
vars == << appVars, histVars, pipeVars >>

\* --------------------------------------------------------------- predict
\* Lines 36-37: req.get_json() and req_body.get('features').
\* The exception parsing raises, "none" when features was obtained.
ParseError(r) ==
    IF r.json = "invalid" THEN "ValueError"
    ELSE IF r.json = "array" THEN "AttributeError"
    ELSE "none"

\* Line 39: `not features` (None and the empty list are falsy).
Falsy(r) == r.kind = "none" \/ (r.kind = "list" /\ r.len = 0)

\* Lines 79-92: the except clauses of predict.
ExcStatus(e) == IF e = "ValueError" THEN 400 ELSE 500

\* Lines 36-52: the exception raised before the model is loaded, "none" if none
\* (len() of a number raises TypeError).
ValidateError(r) ==
    IF ParseError(r) # "none" THEN ParseError(r)
    ELSE IF ~Falsy(r) /\ r.kind = "number" THEN "TypeError"
    ELSE "none"

\* Lines 36-52: the status predict answers before it loads the model, 0 when
\* the request goes on to load_model_from_blob.
Validate(r) ==
    IF ValidateError(r) # "none" THEN ExcStatus(ValidateError(r))
    ELSE IF Falsy(r) THEN 400
    ELSE IF r.len # NumFeatures THEN 400
    ELSE 0

\* Lines 58-60: np.array(features), model.predict, model.predict_proba.
InferError(m, r) ==
    IF m = None THEN "AttributeError"
    ELSE IF ~r.numeric THEN "ValueError"
    ELSE "none"

\* ------------------------------------------------- load_model_from_blob
\* Mutant of StoreLoaded: the global is assigned whatever came out of the
\* download, before it is known to deserialize.
StoreLoadedUnchecked(c, art, id) ==
    [id |-> id, ver |-> art.ver, whole |-> art.good]

\* Line 181: `_cached_model = joblib.load(tmp_file_path)`.  The assignment runs
\* only when joblib.load returned; when it raises the global is not touched.
StoreLoaded(c, art, id) ==
    IF art.good THEN [id |-> id, ver |-> art.ver, whole |-> TRUE] ELSE c

\* Lines 137-138: `global _cached_model; _cached_model = None`.
Invalidated(c) == None

AllNone == [t \in Workers |-> None]

\* Object identity.  joblib.load returns a new object: its identity differs
\* from that of every object still referenced (an identity is free again once
\* nothing refers to the object).
LiveIds ==
    {cached.id, lastRet.id}
    \cup {prevRet[t].id : t \in Workers}

NewId ==
    CHOOSE i \in 1..(Cardinality(LiveIds) + 1) :
        /\ i \notin LiveIds
        /\ \A j \in 1..(Cardinality(LiveIds) + 1) : j \notin LiveIds => i <= j

\* The worker has answered and is free again; its locals are gone.
Finish(t, r, status, stage, e, hit) ==
    /\ last' = [req |-> r, resp |-> status, stage |-> stage, err |-> e,
                hit |-> hit]
    /\ pc' = [pc EXCEPT ![t] = "idle"]
    /\ req' = [req EXCEPT ![t] = NoReq]
    /\ data' = [data EXCEPT ![t] = NoBlob]
    /\ prevRet' = [prevRet EXCEPT ![t] = None]

\* load_model_from_blob raises e (lines 189-191 re-raise it) and the except
\* clauses of predict (lines 79-92) answer it.
Raise(t, r, e) == Finish(t, r, ExcStatus(e), "load", e, FALSE)

\* Lines 30-55 and 147-175.  A worker takes a request, parses and validates it;
\* a request that fails is answered at once.  Otherwise it calls
\* load_model_from_blob: the test `_cached_model is not None`, and on a miss
\* the connection string, the blob client and the temp file.
Receive(t, r) ==
    /\ pc[t] = "idle"
    /\ \/ /\ Validate(r) # 0
          /\ Finish(t, r, Validate(r), "validate", ValidateError(r), FALSE)
          /\ UNCHANGED << tmpFiles, invSince >>
       \/ /\ Validate(r) = 0
          /\ cached # None
          /\ pc' = [pc EXCEPT ![t] = "ret_cached"]
          /\ req' = [req EXCEPT ![t] = r]
          /\ prevRet' = [prevRet EXCEPT ![t] = lastRet]
          /\ invSince' = FALSE
          /\ UNCHANGED << last, data, tmpFiles >>
       \/ /\ Validate(r) = 0
          /\ cached = None
          /\ ~connSet
          /\ Raise(t, r, "ValueError")
          /\ invSince' = FALSE
          /\ UNCHANGED tmpFiles
       \/ /\ Validate(r) = 0
          /\ cached = None
          /\ connSet
          /\ tmpFiles < MaxTmpFiles
          /\ pc' = [pc EXCEPT ![t] = "download"]
          /\ req' = [req EXCEPT ![t] = r]
          /\ tmpFiles' = tmpFiles + 1
          /\ invSince' = FALSE
          /\ UNCHANGED << last, data, prevRet >>
    /\ UNCHANGED << connSet, blob, pending, cached, lastRet >>
    /\ UNCHANGED pipeVars

\* Lines 176-178: download_blob().readall() into the temp file.  The blob may
\* be missing and storage may be unavailable; the with-block then closes the
\* file (delete=False keeps it on disk) and the exception leaves the function.
Download(t) ==
    /\ pc[t] = "download"
    /\ \/ /\ blob # NoBlob
          /\ data' = [data EXCEPT ![t] = blob]
          /\ pc' = [pc EXCEPT ![t] = "deserialize"]
          /\ UNCHANGED << last, req, prevRet >>
       \/ /\ blob = NoBlob
          /\ Raise(t, req[t], "ResourceNotFoundError")
       \/ Raise(t, req[t], "ServiceRequestError")
    /\ UNCHANGED << connSet, blob, pending, cached, tmpFiles, lastRet, invSince >>
    /\ UNCHANGED pipeVars

\* Lines 181-184: joblib.load, the store into the global and os.unlink.  When
\* joblib.load raises, neither the store nor the unlink runs.
Deserialize(t) ==
    /\ pc[t] = "deserialize"
    /\ cached' = StoreLoaded(cached, data[t], NewId)
    /\ \/ /\ data[t].good
          /\ pc' = [pc EXCEPT ![t] = "ret_loaded"]
          /\ tmpFiles' = tmpFiles - 1
          /\ UNCHANGED << last, req, data, prevRet >>
       \/ /\ ~data[t].good
          /\ Raise(t, req[t], "UnpicklingError")
          /\ UNCHANGED tmpFiles
    /\ UNCHANGED << connSet, blob, pending, lastRet, invSince >>
    /\ UNCHANGED pipeVars

\* Lines 153 and 187, then lines 57-77 of predict: `return _cached_model` (a
\* read of the global after the test, or after the store), inference on the
\* value returned, and the response.
Return(t) ==
    /\ pc[t] \in {"ret_cached", "ret_loaded"}
    /\ Finish(t, req[t],
              IF InferError(cached, req[t]) = "none" THEN 200
              ELSE ExcStatus(InferError(cached, req[t])),
              IF InferError(cached, req[t]) = "none" THEN "ok" ELSE "infer",
              InferError(cached, req[t]),
              pc[t] = "ret_cached")
    /\ lastRet' = IF cached # None THEN cached ELSE lastRet
    /\ UNCHANGED << connSet, blob, pending, cached, tmpFiles, invSince >>
    /\ UNCHANGED pipeVars

\* Lines 129-140: the blob trigger.
ModelUpdated ==
    /\ pending > 0
    /\ pending' = pending - 1
    /\ cached' = Invalidated(cached)
    /\ lastRet' = None
    /\ invSince' = TRUE
    /\ prevRet' = AllNone
    /\ UNCHANGED << connSet, blob, tmpFiles, pc, req, data, last >>
    /\ UNCHANGED pipeVars

\* scripts/upload_model_to_azurite.py lines 36-41: upload_blob(overwrite=True)
\* replaces the artifact; the platform then notifies the blob trigger.
Upload(g) ==
    /\ blob.ver <= MaxUploads
    /\ blob' = [ver |-> blob.ver + 1, good |-> g]
    /\ pending' = pending + 1
    /\ UNCHANGED << connSet, cached, tmpFiles, pc, req, data, last, histVars >>
    /\ UNCHANGED pipeVars

\* ============================================================ ml_pipeline
\* A model object: Python's None, a RandomForestClassifier that was never
\* fitted, or one fitted on training input d.
NoModel == [kind |-> "none", fit |-> 0]
Unfitted == [kind |-> "unfitted", fit |-> 0]
Fitted(d) == [kind |-> "fitted", fit |-> d]
TrainSets == 1..MaxTrainSets

\* self.metrics: {} or the report of an evaluation.
NoMetrics == [kind |-> "empty", fit |-> 0]
MetricsOf(m) == [kind |-> "report", fit |-> m.fit]

\* The probe inputs, and the label a fitted model predicts for one (the model
\* fitted on input d labels the probes up to d positive).
Probes == TrainSets
Predict(m, x) == IF x <= m.fit THEN 1 ELSE 0

\* File contents: no file, a file cut short by a failed write, a joblib dump of
\* an object, the JSON text of a metrics dict.
Absent == [fmt |-> "absent", kind |-> "none", fit |-> 0]
Partial == [fmt |-> "partial", kind |-> "none", fit |-> 0]
JoblibDump(m) == [fmt |-> "joblib", kind |-> m.kind, fit |-> m.fit]
JsonDump(mt) == [fmt |-> "json", kind |-> mt.kind, fit |-> mt.fit]
\* joblib.load: the object a dump holds; it raises on anything else.
Loadable(c) == c.fmt = "joblib"
JoblibLoad(c) == [kind |-> c.kind, fit |-> c.fit]

\* os.path.join(self.model_dir, filename) and os.path.join(self.log_dir, filename).
\* Every caller in the repository leaves filename at its default.
Filenames == {"model.pkl"}
ModelPath(f) == << "model_dir", f >>
MetricsPath == << "log_dir", "metrics.json" >>
Paths == {ModelPath(f) : f \in Filenames} \cup {MetricsPath}
NoPath == << "", "" >>

\* Mutant of WriteFile: an existing file is kept.
WriteFileIfAbsent(fs, path, c) ==
    IF fs[path] = Absent THEN [fs EXCEPT ![path] = c] ELSE fs

\* Opening a file for writing and writing c replaces whatever the path held.
WriteFile(fs, path, c) == [fs EXCEPT ![path] = c]

\* A write ends "ok", or raises with the file cut short ("partial"), or raises
\* before the file is opened ("noopen"), the only outcome without the directory.
WriteModes == IF dirsExist THEN {"ok", "partial", "noopen"} ELSE {"noopen"}

NoResult == [model_path |-> NoPath, metrics_path |-> NoPath, metrics |-> NoMetrics]
NoSaved == [model |-> NoModel, replaced |-> FALSE]

\* train_model: self.model is assigned the new classifier, then fitted.
TrainModel(d, ok) ==
    pmodel' = IF ok THEN Fitted(d) ELSE Unfitted

\* evaluate_model: self.model.predict raises unless the model is fitted.
CanEvaluate == pmodel.kind = "fitted"
EvaluateModel(ok) ==
    pmetrics' = IF ok THEN MetricsOf(pmodel) ELSE pmetrics

\* save_model: joblib.dump(self.model, os.path.join(self.model_dir, filename)).
SaveModel(f, mode) ==
    /\ files' = IF mode = "ok" THEN WriteFile(files, ModelPath(f), JoblibDump(pmodel))
                ELSE IF mode = "partial" THEN WriteFile(files, ModelPath(f), Partial)
                ELSE files
    /\ saved' = IF mode = "ok"
                THEN [saved EXCEPT ![ModelPath(f)] =
                        [model |-> pmodel, replaced |-> files[ModelPath(f)] # Absent]]
                ELSE saved

\* save_metrics: json.dump(self.metrics, f) into log_dir/metrics.json.
SaveMetrics(mode) ==
    /\ files' = IF mode = "ok" THEN WriteFile(files, MetricsPath, JsonDump(pmetrics))
                ELSE IF mode = "partial" THEN WriteFile(files, MetricsPath, Partial)
                ELSE files
    /\ UNCHANGED saved

Written(mode, path) == IF mode \in {"ok", "partial"} THEN {path} ELSE {}

\* ---- MLPipeline.run
StepOrder == << "generate", "split", "train", "evaluate", "save_model", "save_metrics" >>
Steps == {StepOrder[i] : i \in 1..Len(StepOrder)}
IndexOf(step) == CHOOSE i \in 1..Len(StepOrder) : StepOrder[i] = step

\* Mutant of AfterStep: the exception of a step is swallowed and run goes on.
AfterStepSwallowed(step, ok) ==
    IF IndexOf(step) = Len(StepOrder) THEN "return"
    ELSE StepOrder[IndexOf(step) + 1]

\* The statements of run execute in order; an exception leaves run at once.
AfterStep(step, ok) ==
    IF ~ok THEN "failed"
    ELSE IF IndexOf(step) = Len(StepOrder) THEN "return"
    ELSE StepOrder[IndexOf(step) + 1]

Advance(step, ok) ==
    /\ rpc' = AfterStep(step, ok)
    /\ done' = Append(done, step)
    /\ failedAt' = IF ok THEN failedAt ELSE step

\* run is not executing: the program is single-threaded, so nothing else runs
\* between the call of run and its return or exception.
NotRunning == rpc = "idle"

RunCall ==
    /\ NotRunning
    /\ rpc' = StepOrder[1]
    /\ UNCHANGED << dirsExist, files, pmodel, pmetrics, done, failedAt, result,
                    wrote, inf, infOut, saved, expect >>
    /\ UNCHANGED << appVars, histVars >>

RunGenerate(ok) ==
    /\ rpc = "generate"
    /\ Advance("generate", ok)
    /\ UNCHANGED << dirsExist, files, pmodel, pmetrics, result, wrote, inf, infOut,
                    saved, expect >>
    /\ UNCHANGED << appVars, histVars >>

RunSplit(ok) ==
    /\ rpc = "split"
    /\ Advance("split", ok)
    /\ UNCHANGED << dirsExist, files, pmodel, pmetrics, result, wrote, inf, infOut,
                    saved, expect >>
    /\ UNCHANGED << appVars, histVars >>

RunTrain(ok) ==
    /\ rpc = "train"
    /\ TrainModel(1, ok)
    /\ Advance("train", ok)
    /\ UNCHANGED << dirsExist, files, pmetrics, result, wrote, inf, infOut, saved,
                    expect >>
    /\ UNCHANGED << appVars, histVars >>

RunEvaluate(ok) ==
    /\ rpc = "evaluate"
    /\ ok => CanEvaluate
    /\ EvaluateModel(ok)
    /\ Advance("evaluate", ok)
    /\ UNCHANGED << dirsExist, files, pmodel, result, wrote, inf, infOut, saved,
                    expect >>
    /\ UNCHANGED << appVars, histVars >>

RunSaveModel(mode) ==
    /\ rpc = "save_model"
    /\ mode \in WriteModes
    /\ SaveModel("model.pkl", mode)
    /\ wrote' = wrote \cup Written(mode, ModelPath("model.pkl"))
    /\ Advance("save_model", mode = "ok")
    /\ UNCHANGED << dirsExist, pmodel, pmetrics, result, inf, infOut, expect >>
    /\ UNCHANGED << appVars, histVars >>

RunSaveMetrics(mode) ==
    /\ rpc = "save_metrics"
    /\ mode \in WriteModes
    /\ SaveMetrics(mode)
    /\ wrote' = wrote \cup Written(mode, MetricsPath)
    /\ Advance("save_metrics", mode = "ok")
    /\ UNCHANGED << dirsExist, pmodel, pmetrics, result, inf, infOut, expect >>
    /\ UNCHANGED << appVars, histVars >>

RunReturn ==
    /\ rpc = "return"
    /\ rpc' = "returned"
    /\ result' = [model_path |-> ModelPath("model.pkl"),
                  metrics_path |-> MetricsPath,
                  metrics |-> pmetrics]
    /\ UNCHANGED << dirsExist, files, pmodel, pmetrics, done, failedAt, wrote, inf,
                    infOut, saved, expect >>
    /\ UNCHANGED << appVars, histVars >>

\* The caller has the result, or the exception, of run.
RunExit ==
    /\ rpc \in {"returned", "failed"}
    /\ rpc' = "idle"
    /\ done' = << >>
    /\ failedAt' = "none"
    /\ result' = NoResult
    /\ wrote' = {}
    /\ UNCHANGED << dirsExist, files, pmodel, pmetrics, inf, infOut, saved, expect >>
    /\ UNCHANGED << appVars, histVars >>

\* ---- the methods called one by one, as the tests do
NewPipeline ==
    /\ NotRunning
    /\ pmodel' = NoModel
    /\ pmetrics' = NoMetrics
    /\ dirsExist' = TRUE
    /\ UNCHANGED << files, rpc, done, failedAt, result, wrote, inf, infOut, saved,
                    expect >>
    /\ UNCHANGED << appVars, histVars >>

CallTrain(d, ok) ==
    /\ NotRunning
    /\ TrainModel(d, ok)
    /\ UNCHANGED << dirsExist, files, pmetrics, rpc, done, failedAt, result, wrote,
                    inf, infOut, saved, expect >>
    /\ UNCHANGED << appVars, histVars >>

CallSaveModel(f, mode) ==
    /\ NotRunning
    /\ mode \in WriteModes
    /\ SaveModel(f, mode)
    /\ UNCHANGED << dirsExist, pmodel, pmetrics, rpc, done, failedAt, result, wrote,
                    inf, infOut, expect >>
    /\ UNCHANGED << appVars, histVars >>

\* The test fixture's cleanup: shutil.rmtree of both directories.
Cleanup ==
    /\ NotRunning
    /\ dirsExist' = FALSE
    /\ files' = [q \in Paths |-> Absent]
    /\ UNCHANGED << pmodel, pmetrics, rpc, done, failedAt, result, wrote, inf,
                    infOut, saved, expect >>
    /\ UNCHANGED << appVars, histVars >>

\* ---- ModelInference
\* load_model: `self.model = joblib.load(self.model_path)`; when joblib.load
\* raises, the assignment does not run and the exception is re-raised.
LoadInto(i, path) ==
    IF Loadable(files[path])
    THEN [ready |-> TRUE, path |-> path, model |-> JoblibLoad(files[path])]
    ELSE i

\* __init__: model_path, model = None, load_model(); when load_model raises
\* the caller gets no instance.
Construct(path) ==
    /\ NotRunning
    /\ inf' = LoadInto(inf, path)
    /\ infOut' = IF Loadable(files[path]) THEN "ok" ELSE "LoadError"
    /\ expect' = IF Loadable(files[path]) THEN saved[path] ELSE expect
    /\ UNCHANGED << dirsExist, files, pmodel, pmetrics, rpc, done, failedAt, result,
                    wrote, saved >>
    /\ UNCHANGED << appVars, histVars >>

\* load_model called again on an instance.
LoadModel ==
    /\ NotRunning
    /\ inf.ready
    /\ inf' = LoadInto(inf, inf.path)
    /\ infOut' = IF Loadable(files[inf.path]) THEN "ok" ELSE "LoadError"
    /\ expect' = IF Loadable(files[inf.path]) THEN saved[inf.path] ELSE expect
    /\ UNCHANGED << dirsExist, files, pmodel, pmetrics, rpc, done, failedAt, result,
                    wrote, saved >>
    /\ UNCHANGED << appVars, histVars >>

\* predict (and predict_single, which calls it).
PredictOutcome(m) ==
    IF m.kind = "none" THEN "ModelNotLoaded"
    ELSE IF m.kind = "unfitted" THEN "NotFittedError"
    ELSE "ok"

InfPredict ==
    /\ NotRunning
    /\ inf.ready
    /\ infOut' = PredictOutcome(inf.model)
    /\ UNCHANGED << dirsExist, files, pmodel, pmetrics, rpc, done, failedAt, result,
                    wrote, inf, saved, expect >>
    /\ UNCHANGED << appVars, histVars >>

InitPipe ==
    /\ dirsExist = TRUE
    /\ files = [q \in Paths |-> Absent]
    /\ pmodel = NoModel
    /\ pmetrics = NoMetrics
    /\ rpc = "idle"
    /\ done = << >>
    /\ failedAt = "none"
    /\ result = NoResult
    /\ wrote = {}
    /\ inf = [ready |-> FALSE, path |-> NoPath, model |-> NoModel]
    /\ infOut = "none"
    /\ saved = [q \in Paths |-> NoSaved]
    /\ expect = NoSaved

\* ================================================================== specs
Init ==
    /\ InitPipe
    /\ connSet \in BOOLEAN
    /\ blob \in {NoBlob, [ver |-> 1, good |-> TRUE]}
    /\ pending = 0
    /\ cached = None
    /\ tmpFiles = 0
    /\ pc = [t \in Workers |-> "idle"]
    /\ req = [t \in Workers |-> NoReq]
    /\ data = [t \in Workers |-> NoBlob]
    /\ last = [req |-> NoReq, resp |-> 0, stage |-> "none", err |-> "none",
               hit |-> FALSE]
    /\ lastRet = None
    /\ invSince = FALSE
    /\ prevRet = AllNone

\* A well-formed request: exactly NumFeatures numeric features.
GoodRequests ==
    { r \in Requests : r.kind = "list" /\ r.len = NumFeatures /\ r.numeric }

\* The function app under concurrent predict invocations.
Next ==
    \/ \E t \in Workers, r \in GoodRequests : Receive(t, r)
    \/ \E t \in Workers : Download(t)
    \/ \E t \in Workers : Deserialize(t)
    \/ \E t \in Workers : Return(t)
    \/ ModelUpdated
    \/ \E g \in BOOLEAN : Upload(g)

Spec == Init /\ [][Next]_vars

\* The function app serving one request at a time, over every request body.
NextReq ==
    \/ \E r \in Requests : Receive(1, r)
    \/ Download(1)
    \/ Deserialize(1)
    \/ Return(1)
    \/ ModelUpdated
    \/ \E g \in BOOLEAN : Upload(g)

SpecReq == Init /\ [][NextReq]_vars

\* MLPipeline and ModelInference.
NextPipe ==
    \/ RunCall
    \/ \E ok \in BOOLEAN : RunGenerate(ok)
    \/ \E ok \in BOOLEAN : RunSplit(ok)
    \/ \E ok \in BOOLEAN : RunTrain(ok)
    \/ \E ok \in BOOLEAN : RunEvaluate(ok)
    \/ \E mode \in {"ok", "partial", "noopen"} : RunSaveModel(mode)
    \/ \E mode \in {"ok", "partial", "noopen"} : RunSaveMetrics(mode)
    \/ RunReturn
    \/ RunExit
    \/ NewPipeline
    \/ \E d \in TrainSets, ok \in BOOLEAN : CallTrain(d, ok)
    \/ \E f \in Filenames, mode \in {"ok", "partial", "noopen"} : CallSaveModel(f, mode)
    \/ Cleanup
    \/ \E path \in Paths : Construct(path)
    \/ LoadModel
    \/ InfPredict

\* The function app stays as deployed with storage configured and no blob.
InitTraining ==
    /\ Init
    /\ connSet
    /\ blob = NoBlob

SpecPipe == InitTraining /\ [][NextPipe]_vars

\* ================================================================= claims
\* A call of load_model_from_blob by worker t returns; the value it returns is
\* the value of the global in the state the step starts from.
ReturnStep(t) == pc[t] \in {"ret_cached", "ret_loaded"} /\ pc'[t] = "idle"
\* A call by worker t starts and finds a cached entry.
HitStep(t) == pc[t] = "idle" /\ pc'[t] = "ret_cached"
\* A call by worker t starts, finds no entry and goes on to download the blob.
MissStep(t) == pc[t] = "idle" /\ pc'[t] = "download"
\* A call of load_model_from_blob leaves by an exception.
RaiseStep(t) ==
    /\ pc'[t] = "idle"
    /\ last'.stage = "load"
    /\ \/ pc[t] \in {"download", "deserialize"}
       \/ pc[t] = "idle" /\ last' # last

\* C1: two successful get_model calls with no model_updated between them
\* return the same instance and the second does not fetch; the first call
\* started after model_updated has run fetches from storage and does not
\* return a cached instance.
C1_CacheHitAndInvalidate ==
    [][\A t \in Workers :
         /\ (ReturnStep(t) /\ prevRet[t] # None /\ cached # None)
               => (cached = prevRet[t] /\ pc[t] = "ret_cached")
         /\ (HitStep(t) \/ MissStep(t)) /\ invSince => MissStep(t)]_vars

\* C2: a call of load_model_from_blob that raises leaves the global as it was
\* and the caller gets the error; a call that starts after a failed one and
\* finds no entry goes through the full load again.
C2_FailureNotCached ==
    [][\A t \in Workers :
         /\ RaiseStep(t) =>
               /\ cached' = cached
               /\ last'.err # "none"
               /\ last'.resp \in {400, 500}
         /\ (pc[t] = "idle" /\ pc'[t] # "idle" /\ last.stage = "load" /\ cached = None)
               => (MissStep(t) /\ tmpFiles' = tmpFiles + 1)]_vars

\* A load failed on the blob, nothing is cached, and a later call is loading.
C2_Witness ==
    /\ last.stage = "load"
    /\ last.err \in {"ResourceNotFoundError", "ServiceRequestError", "UnpicklingError"}
    /\ cached = None
    /\ \E t \in Workers : pc[t] = "download"

\* C3: a request with exactly NumFeatures numeric features that fails while the
\* model is loaded or during inference is answered 500.
C3_LoadFailureIs500 ==
    (last.req \in GoodRequests /\ last.stage \in {"load", "infer"})
        => last.resp = 500

\* C4: a request whose features are missing or are not exactly NumFeatures
\* numeric entries is answered 400 before load_model_from_blob is called.
C4_InvalidIs400BeforeLoad ==
    (last.stage # "none" /\ last.req \notin GoodRequests)
        => (last.resp = 400 /\ last.stage = "validate")

\* C5: once the artifact was replaced and every notification of it was
\* delivered, the stale artifact is not left in the cache: with no call in
\* progress, a cached entry is the artifact in storage.
C5_StaleNotLeftInCache ==
    (pending = 0 /\ cached # None /\ \A t \in Workers : pc[t] = "idle")
        => cached.ver = blob.ver

\* C6: the cache slot is absent or holds one fully deserialized model that was
\* a stored artifact, and every call of get_model that returns hands its
\* caller such a model (predict never finds None in place of the model).
C6_NeverPartial ==
    /\ cached = None \/ (cached.whole /\ cached.ver \in 1..blob.ver)
    /\ ~(last.stage = "infer" /\ last.err = "AttributeError")

\* C9: every temp file on disk belongs to a call of load_model_from_blob that
\* is still between creating it and unlinking it.
C9_TempFilesDeleted ==
    tmpFiles = Cardinality({t \in Workers : pc[t] \in {"download", "deserialize"}})

\* ---- ml_pipeline
Ran(step) == \E i \in 1..Len(done) : done[i] = step

\* C7: run executes its steps in the order of StepOrder; after a step failed no
\* later step runs and nothing is written, the failure reaches the caller, and
\* the result is returned only when every step succeeded.
C7_RunInOrder ==
    /\ \E n \in 0..Len(StepOrder) : done = SubSeq(StepOrder, 1, n)
    /\ rpc \in Steps =>
          /\ failedAt = "none"
          /\ done = SubSeq(StepOrder, 1, IndexOf(rpc) - 1)
    /\ failedAt # "none" =>
          /\ rpc = "failed"
          /\ done[Len(done)] = failedAt
    /\ rpc = "failed" => failedAt # "none"
    /\ ModelPath("model.pkl") \in wrote => Ran("save_model")
    /\ MetricsPath \in wrote => Ran("save_metrics")
    /\ result # NoResult <=> rpc = "returned"
    /\ rpc = "returned" =>
          /\ done = StepOrder
          /\ failedAt = "none"
          /\ result = [model_path |-> ModelPath("model.pkl"),
                       metrics_path |-> MetricsPath,
                       metrics |-> pmetrics]

\* A run whose evaluation failed: train ran, no file was written, no result.
C7_Witness ==
    /\ rpc = "failed"
    /\ failedAt = "evaluate"
    /\ wrote = {}

C10_ModelNeverNone ==
    inf.ready => (inf.model.kind # "none" /\ infOut # "ModelNotLoaded")

====
